---- MODULE Spec2Model ----
(***************************************************************************)
(* Water Consumption Forecast API (src/backend/main.py).                   *)
(*                                                                         *)
(* Process-wide state: the dataset table df, the derived COUNTRIES list,   *)
(* FEATURE_COLUMNS and the model registry model_map.  Request handlers:    *)
(* health, countries, predict, compare, metrics, country_analysis.         *)
(*                                                                         *)
(* Numbers.  Python floats are modelled as fixed-point integers counting   *)
(* 1/Scale units; Float converts an integer of the table, FMul, FDiv and   *)
(* FSqrt round toward zero (sign-symmetric, as IEEE rounding is).          *)
(* NaN and infinities of the table are not modelled.                       *)
(***************************************************************************)
EXTENDS Integers, Sequences, FiniteSets, TLC

\* ------------------------------------------------------------------ bounds
\* Largest number of rows of the dataset table.
MaxRows == 2
\* Fixed-point resolution of the modelled floats.
Scale == 100
\* Longest list of model names a predict request carries.
MaxNames == 2

\* --------------------------------------------------------------- constants
TARGET_COL == "Total Water Consumption(Billion Cubic Meters)"

\* Header of the CSV file, in file order.
Columns ==
  <<"Country", "Year", "Population", "Water Scarcity Level", TARGET_COL>>

categorical_features == <<"Country", "Water Scarcity Level">>

\* Keys of model_map, in insertion order (dict iteration order).
ModelKeys == <<"lasso", "ridge", "knn">>

\* ----------------------------------------------------------------- helpers
Range(s) == {s[i] : i \in 1..Len(s)}

Abs(x) == IF x < 0 THEN -x ELSE x

\* Quotient rounded toward zero, b # 0.
Quot(a, b) ==
  IF (a < 0) = (b < 0) THEN Abs(a) \div Abs(b) ELSE -(Abs(a) \div Abs(b))

\* float(n) of an integer n.
Float(n) == n * Scale

FMul(a, b) == Quot(a * b, Scale)

FDiv(a, b) == Quot(a * Scale, b)

RECURSIVE SqrtFrom(_, _)
\* Integer square root of y > 0 by Newton's iteration from the guess r >= it.
SqrtFrom(r, y) ==
  LET r1 == (r + y \div r) \div 2
  IN IF r1 >= r THEN r ELSE SqrtFrom(r1, y)

\* np.sqrt of a non-negative fixed-point number.
FSqrt(x) == IF x = 0 THEN 0 ELSE SqrtFrom(x * Scale, x * Scale)

RECURSIVE Sum(_)
Sum(s) == IF s = <<>> THEN 0 ELSE s[1] + Sum(Tail(s))

\* np.mean of a non-empty sequence.
Mean(s) == Quot(Sum(s), Len(s))

\* JSON values of a metric: a number, null (Python None) or NaN.
Num(x) == [kind |-> "num", v |-> x]
None == [kind |-> "null", v |-> 0]
NaN == [kind |-> "nan", v |-> 0]

\* str.lower() on the model names a request may carry.
Lower(s) ==
  CASE s = "LASSO" -> "lasso"
    [] s = "RIDGE" -> "ridge"
    [] s = "Ridge" -> "ridge"
    [] s = "Knn"   -> "knn"
    [] s = "KNN"   -> "knn"
    [] OTHER       -> s

\* ------------------------------------------------------------ the dataset
\* df[df["Country"] == country]
RowsOf(d, country) == SelectSeq(d, LAMBDA r : r["Country"] = country)

RECURSIVE InsertByYear(_, _)
InsertByYear(s, r) ==
  IF s = <<>> THEN <<r>>
  ELSE IF s[1]["Year"] <= r["Year"]
       THEN <<s[1]>> \o InsertByYear(Tail(s), r)
       ELSE <<r>> \o s

\* The rows left in file order.
sort_values_omitted(s) == s

RECURSIVE sort_values(_)
\* DataFrame.sort_values("Year"): ascending, rows of equal year in file order.
sort_values(s) ==
  IF s = <<>> THEN <<>>
  ELSE InsertByYear(sort_values(SubSeq(s, 1, Len(s) - 1)), s[Len(s)])

\* hist[cols]: the projection of every row on the columns cols.
Project(rows, cols) ==
  [i \in 1..Len(rows) |-> [c \in Range(cols) |-> rows[i][c]]]

\* hist[col].tolist()
ColumnOf(rows, col) == [i \in 1..Len(rows) |-> rows[i][col]]

\* hist[TARGET_COL].astype(float).tolist()
FloatColumn(rows, col) == [i \in 1..Len(rows) |-> Float(rows[i][col])]

\* Country names a table may hold, in code-point order.
CountryNames == <<"Brazil", "Chile">>

\* sorted(df["Country"].dropna().unique().tolist())
DeriveCountries(d) ==
  SelectSeq(CountryNames, LAMBDA c : \E i \in 1..Len(d) : d[i]["Country"] = c)

\* numerical_features + categorical_features
DeriveFeatureColumns ==
  SelectSeq(Columns, LAMBDA c : c # TARGET_COL /\ c \notin Range(categorical_features))
    \o categorical_features

\* ------------------------------------------------------------- the models
\* The three pickled regressors are opaque: predict(features) -> numbers.
\* Stand-ins, one prediction per feature row, each a deterministic function
\* of the row: a year trend, a blend of population and year, and a
\* piecewise-constant neighbour average.
Regress(name, x) ==
  CASE name = "lasso" -> Float(10 * (x["Year"] - 2019))
    [] name = "ridge" -> Quot(Float(x["Population"]), 4) + Float(x["Year"] - 2019)
    [] OTHER -> IF x["Water Scarcity Level"] = "High" THEN Float(4) ELSE Float(1)

\* model.predict(X): raises when the model is broken, else one number per
\* row of X, in input order.
model_predict(model, X) ==
  IF model.broken
  THEN [raised |-> TRUE, out |-> <<>>]
  ELSE [raised |-> FALSE, out |-> [i \in 1..Len(X) |-> Regress(model.name, X[i])]]

\* One entry of the request's log of calls.
Call(op, name, X) == [op |-> op, model |-> name, X |-> X]

\* ------------------------------------------------------- feature building
\* build_features sorting the table in place (df.sort_values(inplace=True)).
build_features_inplace(d, cols, country) ==
  LET hist == sort_values(RowsOf(d, country))
  IN [df     |-> sort_values(d),
      raised |-> hist = <<>>,
      hist   |-> hist,
      X_hist |-> Project(hist, cols),
      y_true |-> FloatColumn(hist, TARGET_COL)]

build_features(d, cols, country) ==
  LET hist == sort_values(RowsOf(d, country))
  IN [df     |-> d,
      raised |-> hist = <<>>,
      hist   |-> hist,
      X_hist |-> Project(hist, cols),
      y_true |-> FloatColumn(hist, TARGET_COL)]

\* prepare_future without .copy(): the assignments reach the last row of
\* X_hist.
prepare_future_aliased(X_hist, country, year) ==
  LET row == [X_hist[Len(X_hist)] EXCEPT !["Year"] = year,
                                         !["Country"] = country]
  IN [X_hist |-> [X_hist EXCEPT ![Len(X_hist)] = row], X_pred |-> <<row>>]

\* X_pred = X_hist.iloc[-1:].copy(); X_pred["Year"] = year;
\* X_pred["Country"] = country.  Returns both tables as they are afterwards.
prepare_future(X_hist, country, year) ==
  [X_hist |-> X_hist,
   X_pred |-> <<[X_hist[Len(X_hist)] EXCEPT !["Year"] = year,
                                            !["Country"] = country]>>]

RECURSIVE select_model_cased(_, _)
\* select_model without m = m.lower(): the names are matched as given.
select_model_cased(models, registry) ==
  IF models = <<>> THEN "lasso"
  ELSE IF models[1] \in DOMAIN registry THEN models[1]
       ELSE select_model_cased(Tail(models), registry)

RECURSIVE select_model(_, _)
\* for m in body.models: m = m.lower(); if m in model_map: ... break
\* else: "lasso"
select_model(models, registry) ==
  IF models = <<>> THEN "lasso"
  ELSE IF Lower(models[1]) \in DOMAIN registry THEN Lower(models[1])
       ELSE select_model(Tail(models), registry)

\* ----------------------------------------------------------------- scoring
ZeroDivisionError == [kind |-> "ZeroDivisionError", v |-> 0]

\* a / b on Python floats.
PyDiv(a, b) == IF b = 0 THEN ZeroDivisionError ELSE Num(FDiv(a, b))

\* change without the guard on current.
change_unguarded(current, y_future) ==
  LET q == PyDiv(y_future - current, current)
  IN IF q.kind = "num" THEN Num(FMul(q.v, Float(100))) ELSE q

\* ((y_future - current) / current * 100) if current != 0 else 0.0
change_of(current, y_future) ==
  IF current # 0
  THEN LET q == PyDiv(y_future - current, current)
       IN IF q.kind = "num" THEN Num(FMul(q.v, Float(100))) ELSE q
  ELSE Num(Float(0))

\* current taken from the first fitted value instead of the last.
current_first(y_fit) == y_fit[1]

\* float(y_fit[-1])
current_of(y_fit) == y_fit[Len(y_fit)]

\* np.array(y_true) - np.array(y_fit)
Residuals(y_true, y_fit) == [i \in 1..Len(y_true) |-> y_true[i] - y_fit[i]]

\* np.std: the population standard deviation.
np_std(e) ==
  LET m == Mean(e)
      sq == [i \in 1..Len(e) |-> FMul(e[i] - m, e[i] - m)]
  IN FSqrt(Mean(sq))

\* float(np.std(errors)) if len(errors) else 0.0
std_of(errors) == IF Len(errors) # 0 THEN np_std(errors) ELSE Float(0)

\* band_of with an upper bound of one standard deviation.
band_of_lopsided(y_fit, y_future, std) ==
  [i \in 1..Len(y_fit) |-> <<y_fit[i] - 2 * std, y_fit[i] + std>>]
    \o << <<y_future - 2 * std, y_future + std>> >>

\* [[v - 2*std, v + 2*std] for v in y_fit] + [[y_future - 2*std, ...]]
band_of(y_fit, y_future, std) ==
  [i \in 1..Len(y_fit) |-> <<y_fit[i] - 2 * std, y_fit[i] + 2 * std>>]
    \o << <<y_future - 2 * std, y_future + 2 * std>> >>

mean_absolute_error(t, p) == Mean([i \in 1..Len(t) |-> Abs(t[i] - p[i])])

mean_squared_error(t, p) ==
  Mean([i \in 1..Len(t) |-> FMul(t[i] - p[i], t[i] - p[i])])

\* sklearn.metrics.r2_score: NaN below two samples; 1 - SS_res / SS_tot;
\* with SS_tot = 0 the finite replacement 1.0 (perfect fit) or 0.0.
r2_score(t, p) ==
  IF Len(t) < 2 THEN NaN
  ELSE LET m == Mean(t)
           res == Sum([i \in 1..Len(t) |-> FMul(t[i] - p[i], t[i] - p[i])])
           tot == Sum([i \in 1..Len(t) |-> FMul(t[i] - m, t[i] - m)])
       IN IF tot # 0 THEN Num(Float(1) - FDiv(res, tot))
          ELSE IF res = 0 THEN Num(Float(1)) ELSE Num(Float(0))

\* Indices selected by nonzero_mask = y_true_arr != 0.
NonzeroIdx(t) == SelectSeq([i \in 1..Len(t) |-> i], LAMBDA i : t[i] # 0)

\* mape_of with nonzero_mask.all() in place of nonzero_mask.any().
mape_of_all(t, p) ==
  LET idx == NonzeroIdx(t)
  IN IF Len(idx) = Len(t)
     THEN Num(FMul(Mean([k \in 1..Len(idx) |->
                           Abs(FDiv(t[idx[k]] - p[idx[k]], t[idx[k]]))]),
                   Float(100)))
     ELSE None

\* np.mean(np.abs((t[mask] - p[mask]) / t[mask])) * 100 if mask.any() else None
mape_of(t, p) ==
  LET idx == NonzeroIdx(t)
  IN IF idx # <<>>
     THEN Num(FMul(Mean([k \in 1..Len(idx) |->
                           Abs(FDiv(t[idx[k]] - p[idx[k]], t[idx[k]]))]),
                   Float(100)))
     ELSE None

\* The body of the try block of metrics for one model.
metrics_entry(model, X_hist, y_true) ==
  LET r == model_predict(model, X_hist)
  IN IF r.raised
     THEN [MAE |-> None, RMSE |-> None, R2 |-> None, MAPE |-> None]
     ELSE [MAE  |-> Num(mean_absolute_error(y_true, r.out)),
           RMSE |-> Num(FSqrt(mean_squared_error(y_true, r.out))),
           R2   |-> r2_score(y_true, r.out),
           MAPE |-> mape_of(y_true, r.out)]

\* The body of the try block of compare for one model.
compare_entry(model, X_hist) ==
  LET r == model_predict(model, X_hist)
  IN IF r.raised THEN <<>> ELSE r.out

\* ------------------------------------------------------------------- state
VARIABLES
  df,               \* the dataset table: a sequence of rows
  COUNTRIES,        \* sorted, deduplicated country names of df
  FEATURE_COLUMNS,  \* numeric columns then categorical columns
  model_map,        \* model key -> model handle
  th                \* worker thread -> the locals of the request it serves

globals == <<df, COUNTRIES, FEATURE_COLUMNS, model_map>>
vars == <<df, COUNTRIES, FEATURE_COLUMNS, model_map, th>>

\* The process-wide state as one value.
Globals ==
  [df |-> df, COUNTRIES |-> COUNTRIES, FEATURE_COLUMNS |-> FEATURE_COLUMNS,
   model_map |-> model_map]

NoModel == [name |-> "", broken |-> FALSE]

\* The locals of a handler that has just been entered.
NewLocal(endpoint, country, year, models) ==
  [pc |-> "start", endpoint |-> endpoint, country |-> country, year |-> year,
   models |-> models, hist |-> <<>>, years |-> <<>>, X_hist |-> <<>>,
   y_true |-> <<>>, X_pred |-> <<>>, model_key |-> "", model |-> NoModel,
   results |-> <<>>, calls |-> <<>>, status |-> 0, body |-> [detail |-> ""]]

Idle == [NewLocal("", "", 0, <<>>) EXCEPT !.pc = "idle"]

\* The handler returns or raises: the response is fixed.
Finish(L, status, body) ==
  [L EXCEPT !.pc = "done", !.status = status, !.body = body]

\* raise HTTPException(400, f"Invalid country: {country}")
InvalidCountry(L) == Finish(L, 400, [detail |-> "Invalid country"])

\* An exception no handler catches.
Unhandled(L) == Finish(L, 500, [detail |-> "Internal Server Error"])

Same(L, G) == [loc |-> L, glob |-> G]

\* ------------------------------------------------------------------ health
health(L, G) == Same(Finish(L, 200, [status |-> "ok"]), G)

countries(L, G) == Same(Finish(L, 200, [list |-> G.COUNTRIES]), G)

\* ----------------------------------------------------------------- predict
\* predict without the membership test of line 96.
predict_unvalidated(L, G) == Same([L EXCEPT !.pc = "build"], G)

predict_validate(L, G) ==
  Same(IF L.country \notin Range(G.COUNTRIES)
       THEN InvalidCountry(L)
       ELSE [L EXCEPT !.pc = "build"], G)

predict_build(L, G) ==
  LET r == build_features(G.df, G.FEATURE_COLUMNS, L.country)
      L1 == [L EXCEPT !.calls = Append(@, Call("build_features", "", <<>>))]
  IN [glob |-> [G EXCEPT !.df = r.df],
      loc  |-> IF r.raised THEN Unhandled(L1)
               ELSE [L1 EXCEPT !.hist = r.hist, !.X_hist = r.X_hist,
                               !.y_true = r.y_true, !.pc = "future"]]

predict_future(L, G) ==
  LET f == prepare_future(L.X_hist, L.country, L.year)
      key == select_model(L.models, G.model_map)
  IN Same([L EXCEPT !.X_hist = f.X_hist, !.X_pred = f.X_pred,
                    !.model_key = key, !.model = G.model_map[key],
                    !.pc = "infer"], G)

predict_infer(L, G) ==
  LET fit == model_predict(L.model, L.X_hist)
      fut == model_predict(L.model, L.X_pred)
      L1 == [L EXCEPT !.calls =
               IF fit.raised
               THEN Append(@, Call("predict", L.model_key, L.X_hist))
               ELSE @ \o <<Call("predict", L.model_key, L.X_hist),
                           Call("predict", L.model_key, L.X_pred)>>]
      y_fit == fit.out
      y_future == fut.out[1]
      current == current_of(y_fit)
      change == change_of(current, y_future)
      std == std_of(Residuals(L.y_true, y_fit))
  IN Same(IF fit.raised \/ fut.raised
          THEN Finish(L1, 500, [detail |-> "Prediction failed"])
          ELSE IF change.kind # "num" THEN Unhandled(L1)
          ELSE Finish(L1, 200,
                 [model_used |-> L.model_key,
                  years      |-> ColumnOf(L.hist, "Year") \o <<L.year>>,
                  values     |-> y_fit \o <<y_future>>,
                  current    |-> current,
                  predicted  |-> y_future,
                  change     |-> change.v,
                  band       |-> band_of(y_fit, y_future, std)]), G)

\* ----------------------------------------------------------------- compare
compare_validate(L, G) ==
  Same(IF L.country \notin Range(G.COUNTRIES)
       THEN InvalidCountry(L)
       ELSE [L EXCEPT !.pc = "build"], G)

compare_build(L, G) ==
  LET hist == sort_values(RowsOf(G.df, L.country))
  IN Same([L EXCEPT !.hist = hist, !.years = ColumnOf(hist, "Year"),
                    !.X_hist = Project(hist, G.FEATURE_COLUMNS),
                    !.pc = "loop"], G)

\* model_results.get(name, [])
GetResult(results, name, default) ==
  IF \E i \in 1..Len(results) : results[i].name = name
  THEN results[CHOOSE i \in 1..Len(results) : results[i].name = name].value
  ELSE default

\* compare_loop without the try/except: a raising model ends the request.
compare_loop_uncaught(L, G) ==
  LET name == ModelKeys[Len(L.results) + 1]
      r == model_predict(G.model_map[name], L.X_hist)
      L1 == [L EXCEPT !.calls = Append(@, Call("predict", name, L.X_hist))]
  IN Same(IF r.raised THEN Unhandled(L1)
          ELSE [L1 EXCEPT !.results = Append(@, [name |-> name, value |-> r.out]),
                          !.pc = IF Len(L.results) + 1 = Len(ModelKeys)
                                 THEN "respond" ELSE "loop"], G)

\* One iteration of: for name, model in model_map.items()
compare_loop(L, G) ==
  LET name == ModelKeys[Len(L.results) + 1]
      entry == [name |-> name, value |-> compare_entry(G.model_map[name], L.X_hist)]
  IN Same([L EXCEPT !.results = Append(@, entry),
                    !.calls = Append(@, Call("predict", name, L.X_hist)),
                    !.pc = IF Len(L.results) + 1 = Len(ModelKeys)
                           THEN "respond" ELSE "loop"], G)

compare_respond(L, G) ==
  Same(Finish(L, 200,
         [years |-> L.years,
          lasso |-> GetResult(L.results, "lasso", <<>>),
          ridge |-> GetResult(L.results, "ridge", <<>>),
          knn   |-> GetResult(L.results, "knn", <<>>)]), G)

\* ----------------------------------------------------------------- metrics
metrics_validate(L, G) ==
  Same(IF L.country \notin Range(G.COUNTRIES)
       THEN InvalidCountry(L)
       ELSE [L EXCEPT !.pc = "build"], G)

metrics_build(L, G) ==
  LET r == build_features(G.df, G.FEATURE_COLUMNS, L.country)
      L1 == [L EXCEPT !.calls = Append(@, Call("build_features", "", <<>>))]
  IN [glob |-> [G EXCEPT !.df = r.df],
      loc  |-> IF r.raised THEN Unhandled(L1)
               ELSE [L1 EXCEPT !.hist = r.hist, !.X_hist = r.X_hist,
                               !.y_true = r.y_true, !.pc = "loop"]]

metrics_loop(L, G) ==
  LET name == ModelKeys[Len(L.results) + 1]
      entry == [name  |-> name,
                value |-> metrics_entry(G.model_map[name], L.X_hist, L.y_true)]
  IN Same([L EXCEPT !.results = Append(@, entry),
                    !.calls = Append(@, Call("predict", name, L.X_hist)),
                    !.pc = IF Len(L.results) + 1 = Len(ModelKeys)
                           THEN "respond" ELSE "loop"], G)

metrics_respond(L, G) ==
  Same(Finish(L, 200,
         [n \in {L.results[i].name : i \in 1..Len(L.results)} |->
            GetResult(L.results, n, None)]), G)

\* ---------------------------------------------------------------- analysis
analysis_validate(L, G) ==
  Same(IF L.country \notin Range(G.COUNTRIES)
       THEN InvalidCountry(L)
       ELSE [L EXCEPT !.pc = "read"], G)

country_analysis(L, G) ==
  LET hist == sort_values(RowsOf(G.df, L.country))
  IN Same(IF hist = <<>>
          THEN Finish([L EXCEPT !.hist = hist], 404,
                      [detail |-> "No data for this country"])
          ELSE Finish([L EXCEPT !.hist = hist], 200,
                      [years       |-> ColumnOf(hist, "Year"),
                       true_values |-> FloatColumn(hist, TARGET_COL)]), G)

\* ---------------------------------------------------------------- dispatch
\* The next statement block of the handler a thread is in.
Step(L, G) ==
  CASE L.endpoint = "health"    -> health(L, G)
    [] L.endpoint = "countries" -> countries(L, G)
    [] L.endpoint = "predict" /\ L.pc = "start"  -> predict_validate(L, G)
    [] L.endpoint = "predict" /\ L.pc = "build"  -> predict_build(L, G)
    [] L.endpoint = "predict" /\ L.pc = "future" -> predict_future(L, G)
    [] L.endpoint = "predict" /\ L.pc = "infer"  -> predict_infer(L, G)
    [] L.endpoint = "compare" /\ L.pc = "start"   -> compare_validate(L, G)
    [] L.endpoint = "compare" /\ L.pc = "build"   -> compare_build(L, G)
    [] L.endpoint = "compare" /\ L.pc = "loop"    -> compare_loop(L, G)
    [] L.endpoint = "compare" /\ L.pc = "respond" -> compare_respond(L, G)
    [] L.endpoint = "metrics" /\ L.pc = "start"   -> metrics_validate(L, G)
    [] L.endpoint = "metrics" /\ L.pc = "build"   -> metrics_build(L, G)
    [] L.endpoint = "metrics" /\ L.pc = "loop"    -> metrics_loop(L, G)
    [] L.endpoint = "metrics" /\ L.pc = "respond" -> metrics_respond(L, G)
    [] L.endpoint = "analysis" /\ L.pc = "start" -> analysis_validate(L, G)
    [] L.endpoint = "analysis" /\ L.pc = "read"  -> country_analysis(L, G)

RECURSIVE Run(_, _)
\* The whole handler, run from L without interruption.
Run(L, G) ==
  IF L.pc = "done" THEN Same(L, G)
  ELSE LET s == Step(L, G) IN Run(s.loc, s.glob)

\* -------------------------------------------------------------- the inputs
\* One CSV line: country, year and target; the population and the scarcity
\* level of a line follow from its place in the file.
Cells == Range(CountryNames) \X {2019, 2020} \X {0, 4}

MkRow(cell, i) ==
  [c \in Range(Columns) |->
     CASE c = "Country"    -> cell[1]
       [] c = "Year"       -> cell[2]
       [] c = "Population" -> 8 * i
       [] c = "Water Scarcity Level" -> IF i % 2 = 1 THEN "High" ELSE "Low"
       [] OTHER            -> cell[3]]

MkTable(cells) == [i \in 1..Len(cells) |-> MkRow(cells[i], i)]

Tables ==
  UNION {{MkTable(cs) : cs \in [1..n -> Cells]} : n \in 0..MaxRows}

Registries ==
  {[k \in Range(ModelKeys) |-> [name |-> k, broken |-> k \in B]] :
     B \in SUBSET Range(ModelKeys)}

RequestCountries == {"Brazil", "Chile", "Atlantis"}
RequestYears == {2019, 2025}
\* Model lists of the requests of Spec: one per registry key.
RequestModels == {<<>>, <<"RIDGE", "lasso">>, <<"unknown", "Knn">>}

\* Model names of the requests of SelectSpec, and the lists made of them.
ModelNames == {"lasso", "LASSO", "RIDGE", "Ridge", "Knn", "KNN", "unknown"}
NameLists == UNION {[1..n -> ModelNames] : n \in 0..MaxNames}

\* ------------------------------------------------------------------ startup
Startup(d, registry, threads) ==
  /\ df = d
  /\ COUNTRIES = DeriveCountries(d)
  /\ FEATURE_COLUMNS = DeriveFeatureColumns
  /\ model_map = registry
  /\ th = [t \in threads |-> Idle]

Init == \E d \in Tables, r \in Registries : Startup(d, r, {1})

\* ------------------------------------------------- requests, served whole
Serve(t, L) ==
  LET r == Run(L, Globals)
  IN /\ th' = [th EXCEPT ![t] = r.loc]
     /\ df' = r.glob.df
     /\ COUNTRIES' = r.glob.COUNTRIES
     /\ FEATURE_COLUMNS' = r.glob.FEATURE_COLUMNS
     /\ model_map' = r.glob.model_map

Health(t) == th[t].pc = "idle" /\ Serve(t, NewLocal("health", "", 0, <<>>))

Countries(t) == th[t].pc = "idle" /\ Serve(t, NewLocal("countries", "", 0, <<>>))

Predict(t) ==
  /\ th[t].pc = "idle"
  /\ \E c \in RequestCountries, y \in RequestYears, m \in RequestModels :
       Serve(t, NewLocal("predict", c, y, m))

Compare(t) ==
  /\ th[t].pc = "idle"
  /\ \E c \in RequestCountries : Serve(t, NewLocal("compare", c, 0, <<>>))

Metrics(t) ==
  /\ th[t].pc = "idle"
  /\ \E c \in RequestCountries : Serve(t, NewLocal("metrics", c, 0, <<>>))

Analysis(t) ==
  /\ th[t].pc = "idle"
  /\ \E c \in RequestCountries : Serve(t, NewLocal("analysis", c, 0, <<>>))

\* The response is sent and the request's locals are discarded.
Discard(t) ==
  /\ th[t].pc = "done"
  /\ th' = [th EXCEPT ![t] = Idle]
  /\ UNCHANGED globals

Next ==
  \/ \E t \in DOMAIN th : Health(t)
  \/ \E t \in DOMAIN th : Countries(t)
  \/ \E t \in DOMAIN th : Predict(t)
  \/ \E t \in DOMAIN th : Compare(t)
  \/ \E t \in DOMAIN th : Metrics(t)
  \/ \E t \in DOMAIN th : Analysis(t)
  \/ \E t \in DOMAIN th : Discard(t)

Spec == Init /\ [][Next]_vars

\* ------------------------------------------- model selection, every list
\* A table with one country of two years, in file order 2020, 2019.
SelectTable == MkTable(<< <<"Brazil", 2020, 4>>, <<"Brazil", 2019, 0>> >>)

SelectInit == \E r \in Registries : Startup(SelectTable, r, {1})

PredictNamed(t) ==
  /\ th[t].pc = "idle"
  /\ \E m \in NameLists : Serve(t, NewLocal("predict", "Brazil", 2025, m))

SelectNext ==
  \/ \E t \in DOMAIN th : PredictNamed(t)
  \/ \E t \in DOMAIN th : Discard(t)

SelectSpec == SelectInit /\ [][SelectNext]_vars

\* ------------------------------------------ requests served concurrently
\* Two countries, the rows of one out of year order.
ConcTable ==
  MkTable(<< <<"Brazil", 2020, 4>>, <<"Chile", 2019, 0>>, <<"Brazil", 2019, 0>> >>)

ConcRegistries ==
  {[k \in Range(ModelKeys) |-> [name |-> k, broken |-> k \in B]] :
     B \in {{}, {"ridge"}}}

ConcInit == \E r \in ConcRegistries : Startup(ConcTable, r, {1, 2})

ConcRequests ==
  {NewLocal("health", "", 0, <<>>), NewLocal("countries", "", 0, <<>>),
   NewLocal("predict", "Brazil", 2025, <<>>),
   NewLocal("predict", "Brazil", 2025, <<"RIDGE">>),
   NewLocal("predict", "Atlantis", 2025, <<>>),
   NewLocal("compare", "Brazil", 0, <<>>),
   NewLocal("metrics", "Brazil", 0, <<>>),
   NewLocal("analysis", "Brazil", 0, <<>>),
   NewLocal("analysis", "Chile", 0, <<>>)}

\* A worker thread takes a request and enters its handler.
Receive(t) ==
  /\ th[t].pc = "idle"
  /\ \E L \in ConcRequests : th' = [th EXCEPT ![t] = L]
  /\ UNCHANGED globals

\* A worker thread runs the next statement block of its handler.
Advance(t) ==
  /\ th[t].pc \notin {"idle", "done"}
  /\ LET s == Step(th[t], Globals)
     IN /\ th' = [th EXCEPT ![t] = s.loc]
        /\ df' = s.glob.df
        /\ COUNTRIES' = s.glob.COUNTRIES
        /\ FEATURE_COLUMNS' = s.glob.FEATURE_COLUMNS
        /\ model_map' = s.glob.model_map

ConcNext ==
  \/ \E t \in DOMAIN th : Receive(t)
  \/ \E t \in DOMAIN th : Advance(t)
  \/ \E t \in DOMAIN th : Discard(t)

ConcSpec == ConcInit /\ [][ConcNext]_vars

\* =================================================================== claims
Served(t, endpoint) == th[t].pc = "done" /\ th[t].endpoint = endpoint

ValidCountry(t) == th[t].country \in Range(COUNTRIES)

RegistryKeys == {"lasso", "ridge", "knn"}

\* Positions of a name list whose lower-cased entry is a registry key.
Matches(models) == {i \in 1..Len(models) : Lower(models[i]) \in RegistryKeys}

FirstMatch(models) ==
  IF Matches(models) = {} THEN "lasso"
  ELSE Lower(models[CHOOSE i \in Matches(models) :
                      \A j \in Matches(models) : i <= j])

\* C1: predict uses the lower-cased first entry of the requested list that
\* is a registry key, and lasso when the list is empty or nothing matches;
\* a successful response names that model as model_used.
C1_ModelSelection ==
  \A t \in DOMAIN th :
    (Served(t, "predict") /\ ValidCountry(t)) =>
      /\ th[t].model_key = FirstMatch(th[t].models)
      /\ th[t].model = model_map[FirstMatch(th[t].models)]
      /\ th[t].status = 200 => th[t].body.model_used = FirstMatch(th[t].models)

C1_Witness ==
  \E t \in DOMAIN th :
    /\ Served(t, "predict") /\ th[t].status = 200
    /\ th[t].models = <<"RIDGE", "lasso">>
    /\ th[t].body.model_used = "ridge"

\* C2: predict with a country outside COUNTRIES ends 400, whatever the year,
\* the model list and the state of the models, before build_features or any
\* model.predict is called.
C2_UnknownCountry400 ==
  \A t \in DOMAIN th :
    (Served(t, "predict") /\ ~ValidCountry(t)) =>
      /\ th[t].status = 400
      /\ th[t].calls = <<>>
      /\ th[t].hist = <<>> /\ th[t].X_hist = <<>> /\ th[t].X_pred = <<>>

C2_Witness ==
  \E t \in DOMAIN th :
    /\ Served(t, "predict") /\ ~ValidCountry(t)
    /\ th[t].status = 400
    /\ th[t].models # <<>>
    /\ \A k \in RegistryKeys : model_map[k].broken

\* The registry with every model working.
Healthy == [k \in DOMAIN model_map |-> [model_map[k] EXCEPT !.broken = FALSE]]

\* The response body the request of thread t gets when no model fails.
HealthyBody(t) ==
  Run(NewLocal(th[t].endpoint, th[t].country, th[t].year, th[t].models),
      [Globals EXCEPT !.model_map = Healthy]).loc.body

NoMetrics == [MAE |-> None, RMSE |-> None, R2 |-> None, MAPE |-> None]

CountryRows(t) == {i \in 1..Len(df) : df[i]["Country"] = th[t].country}

NonzeroRows(t) == {i \in CountryRows(t) : df[i][TARGET_COL] # 0}

\* |true - fit| / |true| of row i of df under model k.
PctErr(k, i) ==
  FDiv(Abs(Float(df[i][TARGET_COL]) - Regress(k, df[i])),
       Abs(Float(df[i][TARGET_COL])))

RECURSIVE SumPct(_, _)
SumPct(k, S) ==
  IF S = {} THEN 0
  ELSE LET i == CHOOSE j \in S : TRUE IN PctErr(k, i) + SumPct(k, S \ {i})

\* Mean percent absolute error of model k over the nonzero-true rows.
ExpectedMape(t, k) ==
  Num(FMul(Quot(SumPct(k, NonzeroRows(t)), Cardinality(NonzeroRows(t))),
           Float(100)))

MapeRule(t, k) ==
  /\ th[t].body[k].MAPE = None <=> NonzeroRows(t) = {}
  /\ NonzeroRows(t) # {} => th[t].body[k].MAPE = ExpectedMape(t, k)

\* C4 as stated: for every model, MAPE is null exactly when every true value
\* of the country is zero, else the mean percent error over the nonzero-true
\* points.
C4_MapeEveryModel ==
  \A t \in DOMAIN th :
    (Served(t, "metrics") /\ ValidCountry(t)) =>
      \A k \in RegistryKeys : MapeRule(t, k)

\* C4, amended: the rule holds for every model whose predict call succeeds;
\* a model whose predict call fails has MAPE null whatever the true values.
C4_MapeWorkingModels ==
  \A t \in DOMAIN th :
    (Served(t, "metrics") /\ ValidCountry(t)) =>
      \A k \in RegistryKeys :
        IF model_map[k].broken THEN th[t].body[k].MAPE = None
        ELSE MapeRule(t, k)

C4_Witness ==
  \E t \in DOMAIN th :
    /\ Served(t, "metrics") /\ th[t].status = 200
    /\ Cardinality(CountryRows(t)) = 2
    /\ Cardinality(NonzeroRows(t)) = 1
    /\ ~model_map["lasso"].broken
    /\ th[t].body["lasso"].MAPE.kind = "num"
    /\ model_map["knn"].broken
    /\ th[t].body["knn"].MAPE = None

\* C5: in a successful predict response the band has one entry per value,
\* every entry brackets its value, and every entry is 4*std wide, std the
\* population standard deviation of the residuals true[i] - fit[i].
C5_BandInvariant ==
  \A t \in DOMAIN th :
    (Served(t, "predict") /\ th[t].status = 200) =>
      LET values == th[t].body.values
          band == th[t].body.band
          n == Len(th[t].y_true)
          std == np_std([i \in 1..n |-> th[t].y_true[i] - values[i]])
      IN /\ Len(band) = Len(values)
         /\ \A i \in 1..Len(values) :
              /\ Len(band[i]) = 2
              /\ band[i][1] <= values[i] /\ values[i] <= band[i][2]
              /\ band[i][2] - band[i][1] = 4 * std

C5_Witness ==
  \E t \in DOMAIN th :
    /\ Served(t, "predict") /\ th[t].status = 200
    /\ Len(th[t].body.values) = 3
    /\ th[t].body.band[3][1] < th[t].body.values[3]
    /\ \E i \in 1..2 : th[t].y_true[i] < th[t].body.values[i]

\* C6: a successful predict response for a country of n rows and year y has
\* years = the n history years in ascending order then y, values = the n
\* fit values then the future prediction, current = values[n],
\* predicted = values[n+1], and years, values, band all of length n+1.
C6_ResponseShape ==
  \A t \in DOMAIN th :
    (Served(t, "predict") /\ th[t].status = 200) =>
      LET b == th[t].body
          n == Cardinality(CountryRows(t))
          fit == model_predict(th[t].model, th[t].X_hist).out
          future == model_predict(th[t].model, th[t].X_pred).out[1]
      IN /\ n >= 1
         /\ Len(b.years) = n + 1 /\ Len(b.values) = n + 1 /\ Len(b.band) = n + 1
         /\ b.years[n + 1] = th[t].year
         /\ \A i \in 1..(n - 1) : b.years[i] <= b.years[i + 1]
         /\ \A y \in {df[i]["Year"] : i \in 1..Len(df)} \cup Range(b.years) :
              Cardinality({i \in 1..n : b.years[i] = y})
                = Cardinality({j \in CountryRows(t) : df[j]["Year"] = y})
         /\ b.values = fit \o <<future>>
         /\ b.current = b.values[n]
         /\ b.predicted = b.values[n + 1]

C6_Witness ==
  \E t \in DOMAIN th :
    /\ Served(t, "predict") /\ th[t].status = 200
    /\ th[t].body.years = <<2019, 2020, 2019>>
    /\ th[t].body.values[1] # th[t].body.values[2]
    /\ df[1]["Year"] = 2020

\* C7: in predict, change is 0 whenever current is 0, whatever the future
\* prediction, and the request does not fail; otherwise change is
\* (future - current) / current * 100.
C7_Change ==
  \A t \in DOMAIN th :
    (Served(t, "predict") /\ ValidCountry(t) /\ ~th[t].model.broken) =>
      /\ th[t].status = 200
      /\ th[t].body.current = 0 => th[t].body.change = 0
      /\ th[t].body.current # 0 =>
           th[t].body.change =
             FMul(FDiv(th[t].body.predicted - th[t].body.current,
                       th[t].body.current), Float(100))

C7_Witness ==
  \E t \in DOMAIN th :
    /\ Served(t, "predict") /\ th[t].status = 200
    /\ th[t].body.current = 0
    /\ th[t].body.predicted # 0
    /\ th[t].body.change = 0

\* C8: for every country of COUNTRIES, analysis answers 200 (never 404), its
\* years are in non-decreasing order, and its (year, true value) pairs are
\* exactly those of the table's rows of that country.
C8_Analysis ==
  \A t \in DOMAIN th :
    /\ Served(t, "analysis") => th[t].status # 404
    /\ (Served(t, "analysis") /\ ValidCountry(t)) =>
         LET b == th[t].body
             n == Cardinality(CountryRows(t))
         IN /\ th[t].status = 200
            /\ Len(b.years) = n /\ Len(b.true_values) = n
            /\ \A i \in 1..(n - 1) : b.years[i] <= b.years[i + 1]
            /\ \A i \in 1..n :
                 Cardinality({j \in 1..n : b.years[j] = b.years[i]
                                /\ b.true_values[j] = b.true_values[i]})
                   = Cardinality({j \in CountryRows(t) :
                                /\ df[j]["Year"] = b.years[i]
                                /\ Float(df[j][TARGET_COL]) = b.true_values[i]})

C8_Witness ==
  \E t \in DOMAIN th :
    /\ Served(t, "analysis") /\ th[t].status = 200
    /\ Len(df) = 2 /\ df[1]["Year"] = 2020 /\ df[1][TARGET_COL] = 4
    /\ th[t].body.years = <<2019, 2020>>
    /\ th[t].body.true_values = <<0, Float(4)>>

\* The largest year among the rows of the country thread t asks about.
LatestYear(t) ==
  CHOOSE y \in {df[i]["Year"] : i \in CountryRows(t)} :
    \A i \in CountryRows(t) : df[i]["Year"] <= y

\* C9: the future feature row of predict is the feature row of the latest
\* historical year with Year and Country set to the request's; the history
\* feature table is unchanged and is what the fit is computed over.
C9_FutureRow ==
  \A t \in DOMAIN th :
    (Served(t, "predict") /\ ValidCountry(t)) =>
      LET hist == th[t].hist
          last == hist[Len(hist)]
          X_pred == th[t].X_pred
          features == Project(sort_values(RowsOf(df, th[t].country)),
                              FEATURE_COLUMNS)
      IN /\ last["Year"] = LatestYear(t)
         /\ Len(X_pred) = 1
         /\ DOMAIN X_pred[1] = Range(FEATURE_COLUMNS)
         /\ \A c \in Range(FEATURE_COLUMNS) \ {"Year", "Country"} :
              X_pred[1][c] = last[c]
         /\ X_pred[1]["Year"] = th[t].year
         /\ X_pred[1]["Country"] = th[t].country
         /\ th[t].X_hist = features
         /\ th[t].calls[2] = Call("predict", th[t].model_key, features)

C9_Witness ==
  \E t \in DOMAIN th :
    /\ Served(t, "predict") /\ th[t].status = 200
    /\ Len(th[t].hist) = 2
    /\ th[t].hist[1]["Population"] > th[t].hist[2]["Population"]
    /\ th[t].X_pred[1]["Population"] = th[t].hist[2]["Population"]
    /\ th[t].X_pred[1]["Year"] = 2025
    /\ th[t].X_hist[2]["Year"] = 2020

\* The response the request of thread t gets when it is served alone.
Alone(t) ==
  Run(NewLocal(th[t].endpoint, th[t].country, th[t].year, th[t].models),
      Globals).loc

\* C10: no step of any handler changes df, COUNTRIES, FEATURE_COLUMNS or
\* model_map, and under every interleaving of two requests each response is
\* the response of the same request served alone.
C10_Isolation ==
  /\ [][globals' = globals]_vars
  /\ [](\A t \in DOMAIN th :
          th[t].pc = "done" =>
            /\ th[t].status = Alone(t).status
            /\ th[t].body = Alone(t).body)

C10_Witness ==
  /\ th[1].pc = "done" /\ th[1].endpoint = "predict" /\ th[1].status = 500
  /\ th[2].endpoint = "metrics" /\ th[2].pc = "loop"
  /\ Len(th[2].results) = 2

====
